---- MODULE Spec2Model ----
(***************************************************************************)
(* davenice/fsyo-raffle: the ticket transfer codec (ticketTransfer.ts),    *)
(* the QR export view (QRExport.tsx), the camera flows (Scanner.tsx,       *)
(* QRImport.tsx) and the OCR hook (useOCR.ts).                             *)
(*                                                                         *)
(* A JavaScript string is modelled as a sequence of one-character strings, *)
(* so "12R" is <<"1", "2", "R">>; String.length is Len.                    *)
(***************************************************************************)
EXTENDS Integers, Sequences, FiniteSets, TLC

VARIABLES
    \* ---- codec harness (encodeTickets / decodeTickets applied to inputs)
    cTickets,        \* the ticket sequence handed to encodeTickets
    cData,           \* the string encodeTickets returned
    cResult,         \* what decodeTickets returned for cData
    cpc,             \* "input" | "encoded" | "decoded"
    \* ---- App.tsx
    tickets,         \* useState<RaffleTicket[]>([])
    nextId,          \* useState(1)
    selectedColour,  \* App's colour select
    scannerOpen,
    qrExportOpen,
    qrImportOpen,
    \* ---- QRExport.tsx: what the open export modal renders
    exportView,      \* "closed" | "empty" | "warning" | "qr"
    qrValue,         \* the value QRCodeSVG was rendered with, <<>> when not rendered
    \* ---- the camera device (navigator.mediaDevices)
    nextStream,      \* id of the next MediaStream getUserMedia hands out
    scannerLive,     \* streams acquired by the Scanner whose tracks still run
    importLive,      \* streams acquired by QRImport whose tracks still run
    \* ---- Scanner.tsx (the mounted instance, or the last unmounted one)
    scannerStatus,   \* status: ScanStatus
    scannerError,    \* error
    scannedNumber,
    scannerColour,   \* the Scanner's own selectedColour
    scannerStreamRef,\* streamRef.current, 0 for null
    scannerStart,    \* where startCamera is suspended: "none" | "getUserMedia" | "videoReady"
    captures,        \* the captureAndRecognize calls suspended at await recognize(...)
    \* ---- useOCR.ts / tesseract.js
    enginesCreated,  \* OCR workers created so far in this page
    \* ---- QRImport.tsx (the mounted instance, or the last unmounted one)
    importStatus,    \* status: ImportStatus
    importError,
    importedTickets,
    importStreamRef, \* streamRef.current, 0 for null
    animationRef,    \* "null" | "pending" (the id of a scheduled callback) | "fired" (a stale id)
    importStart,     \* where startCamera is suspended
    qrData,          \* what jsQR found in the last polled frame
    orphanPolls,     \* polling chains of earlier, unmounted QRImport instances
    \* ---- useOCR.ts: one hook instance and its recognize calls, one at a time
    isProcessing,    \* useState(false)
    ocrError,        \* error: "null" or the message
    progress,        \* useState(0)
    ocrRawText,      \* result.data.text the engine answered the current call with
    ocrThrown,       \* what the engine threw in the last call that failed
    ocrReturn,       \* what the current call resolved to, once it has
    ocrpc,           \* "idle" | "running" | "returned"
    \* ---- Scanner.tsx: the coordinate mapping of captureAndRecognize, on its own
    geometry,        \* video size, displayed size and scan region when capturing
    rectangle,       \* the rectangle computed from it
    mappc,           \* "input" | "mapped"
    \* ---- Scanner.tsx: detectColour on its own
    avgSample,       \* <<avgR, avgG, avgB>>
    closestColour,   \* what detectColour returned for it
    colourpc,        \* "input" | "detected"
    \* ---- Scanner.tsx: detectColour with its sampling, on its own
    sampleCtx,       \* the canvas context: its size and the colour of its pixels
    sampleRect,      \* the sensor rectangle
    sampledColour,   \* what detectColour returned for them
    samplepc         \* "input" | "detected"

codecVars == <<cTickets, cData, cResult, cpc>>

appVars == <<tickets, nextId, selectedColour, scannerOpen, qrExportOpen, qrImportOpen>>

exportVars == <<exportView, qrValue>>

deviceVars == <<nextStream, scannerLive, importLive>>

scannerVars ==
    <<scannerStatus, scannerError, scannedNumber, scannerColour, scannerStreamRef,
      scannerStart, captures, enginesCreated>>

importVars ==
    <<importStatus, importError, importedTickets, importStreamRef, animationRef,
      importStart, qrData, orphanPolls>>

ocrVars == <<isProcessing, ocrError, progress, ocrRawText, ocrThrown, ocrReturn, ocrpc>>

\* The variables of the harnesses that apply single functions and hooks.
mapVars == <<geometry, rectangle, mappc>>

colourVars == <<avgSample, closestColour, colourpc>>

sampleVars == <<sampleCtx, sampleRect, sampledColour, samplepc>>

harnessVars == <<ocrVars, mapVars, colourVars, sampleVars>>

vars == <<codecVars, harnessVars, appVars, exportVars, deviceVars, scannerVars, importVars>>

-----------------------------------------------------------------------------
(* Bounds *)

MaxNumLen == 1

MaxTickets == 2

\* Characters a ticket number is built from in the codec harness: a digit
\* and the delimiter (a number containing it is not representable).
NumChars == {"1", ","}

\* Values Date.now() takes when decodeTickets runs.
ClockValues == {1000, 2000}

-----------------------------------------------------------------------------
(* types.ts *)

COLOURS == <<"Red", "Blue", "Green", "Yellow", "Orange", "Purple", "Pink", "White">>

RaffleColour == {COLOURS[i] : i \in 1..Len(COLOURS)}

-----------------------------------------------------------------------------
(* ticketTransfer.ts *)

\* The table CLAUDE.md documents (U = Purple, P = Pink) in place of the one
\* the code defines.
COLOUR_TO_CHAR_Doc ==
    [c \in RaffleColour |->
        CASE c = "Red" -> "R" [] c = "Blue" -> "B" [] c = "Green" -> "G"
          [] c = "Yellow" -> "Y" [] c = "Orange" -> "O" [] c = "Purple" -> "U"
          [] c = "Pink" -> "P" [] c = "White" -> "W"]

COLOUR_TO_CHAR ==
    [c \in RaffleColour |->
        CASE c = "Red" -> "R" [] c = "Blue" -> "B" [] c = "Green" -> "G"
          [] c = "Yellow" -> "Y" [] c = "Orange" -> "O" [] c = "Purple" -> "P"
          [] c = "Pink" -> "K" [] c = "White" -> "W"]

CHAR_TO_COLOUR_Doc ==
    [ch \in {"R", "B", "G", "Y", "O", "U", "P", "W"} |->
        CASE ch = "R" -> "Red" [] ch = "B" -> "Blue" [] ch = "G" -> "Green"
          [] ch = "Y" -> "Yellow" [] ch = "O" -> "Orange" [] ch = "U" -> "Purple"
          [] ch = "P" -> "Pink" [] ch = "W" -> "White"]

CHAR_TO_COLOUR ==
    [ch \in {"R", "B", "G", "Y", "O", "P", "K", "W"} |->
        CASE ch = "R" -> "Red" [] ch = "B" -> "Blue" [] ch = "G" -> "Green"
          [] ch = "Y" -> "Yellow" [] ch = "O" -> "Orange" [] ch = "P" -> "Purple"
          [] ch = "K" -> "Pink" [] ch = "W" -> "White"]

\* Array.prototype.join: the parts in order, sep between neighbours.
RECURSIVE Join(_, _)
Join(parts, sep) ==
    IF parts = <<>> THEN <<>>
    ELSE IF Len(parts) = 1 THEN parts[1]
    ELSE parts[1] \o sep \o Join(Tail(parts), sep)

\* A split that drops empty parts, which String.prototype.split does not do.
RECURSIVE SplitSkipEmpty(_, _)
SplitSkipEmpty(s, ch) ==
    IF s = <<>> THEN <<>>
    ELSE IF \A i \in 1..Len(s) : s[i] # ch THEN <<s>>
    ELSE LET i == CHOOSE k \in 1..Len(s) :
                      s[k] = ch /\ \A j \in 1..(k - 1) : s[j] # ch
         IN  (IF i = 1 THEN <<>> ELSE <<SubSeq(s, 1, i - 1)>>)
                 \o SplitSkipEmpty(SubSeq(s, i + 1, Len(s)), ch)

\* String.prototype.split on a one-character separator: always at least one
\* part, empty parts kept.
RECURSIVE Split(_, _)
Split(s, ch) ==
    IF \A i \in 1..Len(s) : s[i] # ch THEN <<s>>
    ELSE LET i == CHOOSE k \in 1..Len(s) :
                      s[k] = ch /\ \A j \in 1..(k - 1) : s[j] # ch
         IN  <<SubSeq(s, 1, i - 1)>> \o Split(SubSeq(s, i + 1, Len(s)), ch)

\* entry.slice(-1): the last character, "" for the empty string.
SliceLast(entry) == IF entry = <<>> THEN <<>> ELSE <<entry[Len(entry)]>>

\* entry.slice(0, -1): all but the last character.
SliceInit(entry) == IF entry = <<>> THEN <<>> ELSE SubSeq(entry, 1, Len(entry) - 1)

\* A value of type RaffleTicket[] | null.
Null == [isNull |-> TRUE, list |-> <<>>]

Some(ts) == [isNull |-> FALSE, list |-> ts]

encodeTickets(ts) ==
    Join([i \in 1..Len(ts) |-> Append(ts[i].number, COLOUR_TO_CHAR[ts[i].colour])],
         <<",">>)

estimateQRSize(ts) == Len(encodeTickets(ts))

MAX_SAFE_BYTES == 2000

\* CHAR_TO_COLOUR[colourChar] || 'White'
ColourOfChar(colourChar) ==
    IF Len(colourChar) = 1 /\ colourChar[1] \in DOMAIN CHAR_TO_COLOUR
    THEN CHAR_TO_COLOUR[colourChar[1]]
    ELSE "White"

\* now is the value of Date.now(); index is 0-based in the code.
decodeTickets(data, now) ==
    IF data = <<>> THEN Null
    ELSE LET entries == Split(data, ",")
         IN  Some([i \in 1..Len(entries) |->
                      [id     |-> now + (i - 1),
                       number |-> SliceInit(entries[i]),
                       colour |-> ColourOfChar(SliceLast(entries[i]))]])

-----------------------------------------------------------------------------
(* Codec harness: encodeTickets, then decodeTickets of its output *)

Strings(chars, n) == UNION {[1..k -> chars] : k \in 0..n}

CodecTickets == [id : {1}, number : Strings(NumChars, MaxNumLen), colour : RaffleColour]

InitCodecVars ==
    /\ cTickets \in UNION {[1..k -> CodecTickets] : k \in 0..MaxTickets}
    /\ cData = <<>>
    /\ cResult = Null
    /\ cpc = "input"

IdleCodecVars ==
    /\ cTickets = <<>>
    /\ cData = <<>>
    /\ cResult = Null
    /\ cpc = "input"

CodecEncode ==
    /\ cpc = "input"
    /\ cData' = encodeTickets(cTickets)
    /\ cpc' = "encoded"
    /\ UNCHANGED <<cTickets, cResult, harnessVars, appVars, exportVars, deviceVars, scannerVars, importVars>>

CodecDecode ==
    /\ cpc = "encoded"
    /\ \E now \in ClockValues : cResult' = decodeTickets(cData, now)
    /\ cpc' = "decoded"
    /\ UNCHANGED <<cTickets, cData, harnessVars, appVars, exportVars, deviceVars, scannerVars, importVars>>

\* decodeTickets applied to an arbitrary payload string.
MaxDecodeLen == 3

\* A digit, two colour codes, the delimiter and a character that is no code.
DecodeChars == {"1", "R", "K", ",", "x"}

InitPayloadVars ==
    /\ cTickets = <<>>
    /\ cData \in Strings(DecodeChars, MaxDecodeLen)
    /\ cResult = Null
    /\ cpc = "payload"

CodecDecodePayload ==
    /\ cpc = "payload"
    /\ \E now \in ClockValues : cResult' = decodeTickets(cData, now)
    /\ cpc' = "parsed"
    /\ UNCHANGED <<cTickets, cData, harnessVars, appVars, exportVars, deviceVars, scannerVars, importVars>>

-----------------------------------------------------------------------------
(* QRExport.tsx: the render function of the export modal *)

isOversize(ts) == estimateQRSize(ts) > MAX_SAFE_BYTES

\* Which branch of the JSX the modal renders (QRExport.tsx:31-64).
QRExportView(open, ts) ==
    IF ~open THEN "closed"
    ELSE IF Len(ts) = 0 THEN "empty"
    ELSE IF isOversize(ts) THEN "warning"
    ELSE "qr"

\* The value prop of <QRCodeSVG>, <<>> when the element is not rendered.
QRCodeValue(open, ts) ==
    IF QRExportView(open, ts) = "qr" THEN encodeTickets(ts) ELSE <<>>

\* React re-renders the modal with the new props after every state change.
RenderQRExport ==
    /\ exportView' = QRExportView(qrExportOpen', tickets')
    /\ qrValue' = QRCodeValue(qrExportOpen', tickets')

-----------------------------------------------------------------------------
(* App.tsx *)

MaxNextId == 2

InitApp ==
    /\ tickets = <<>>
    /\ nextId = 1
    /\ selectedColour = "Red"
    /\ scannerOpen = FALSE
    /\ qrExportOpen = FALSE
    /\ qrImportOpen = FALSE

InitExport ==
    /\ exportView = "closed"
    /\ qrValue = <<>>

\* String.prototype.trim, with the space as the only whitespace character.
RECURSIVE Trim(_)
Trim(s) ==
    IF s = <<>> THEN s
    ELSE IF Head(s) = " " THEN Trim(Tail(s))
    ELSE IF s[Len(s)] = " " THEN Trim(SubSeq(s, 1, Len(s) - 1))
    ELSE s

\* tickets.filter((t) => t.id !== id)
RECURSIVE WithoutId(_, _)
WithoutId(ts, id) ==
    IF ts = <<>> THEN <<>>
    ELSE IF Head(ts).id = id THEN WithoutId(Tail(ts), id)
    ELSE <<Head(ts)>> \o WithoutId(Tail(ts), id)

\* ticketNumber is the text in the input when Add is pressed; it is cleared after.
handleAddTicket(ticketNumber) ==
    /\ Trim(ticketNumber) # <<>>
    /\ nextId <= MaxNextId
    /\ tickets' = Append(tickets, [id     |-> nextId,
                                   number |-> Trim(ticketNumber),
                                   colour |-> selectedColour])
    /\ nextId' = nextId + 1
    /\ UNCHANGED <<selectedColour, scannerOpen, qrExportOpen, qrImportOpen>>
    /\ UNCHANGED <<codecVars, harnessVars, deviceVars, scannerVars, importVars>>
    /\ RenderQRExport

\* A click on a rendered ticket block.
handleRemoveTicket(id) ==
    /\ \E i \in 1..Len(tickets) : tickets[i].id = id
    /\ tickets' = WithoutId(tickets, id)
    /\ UNCHANGED <<nextId, selectedColour, scannerOpen, qrExportOpen, qrImportOpen>>
    /\ UNCHANGED <<codecVars, harnessVars, deviceVars, scannerVars, importVars>>
    /\ RenderQRExport

\* onChange of the colour select.
SelectColour(colour) ==
    /\ selectedColour # colour
    /\ selectedColour' = colour
    /\ UNCHANGED <<tickets, nextId, scannerOpen, qrExportOpen, qrImportOpen>>
    /\ UNCHANGED <<codecVars, harnessVars, exportVars, deviceVars, scannerVars, importVars>>

\* The Export button: setQRExportOpen(true).
OpenExport ==
    /\ ~qrExportOpen
    /\ qrExportOpen' = TRUE
    /\ UNCHANGED <<tickets, nextId, selectedColour, scannerOpen, qrImportOpen>>
    /\ UNCHANGED <<codecVars, harnessVars, deviceVars, scannerVars, importVars>>
    /\ RenderQRExport

\* The modal's [X] button: onClose = setQRExportOpen(false).
CloseExport ==
    /\ qrExportOpen
    /\ qrExportOpen' = FALSE
    /\ UNCHANGED <<tickets, nextId, selectedColour, scannerOpen, qrImportOpen>>
    /\ UNCHANGED <<codecVars, harnessVars, deviceVars, scannerVars, importVars>>
    /\ RenderQRExport

\* A callback that adds the ticket twice.
handleScanCompleteTwice(number, colour) ==
    /\ tickets' = tickets \o <<[id |-> nextId, number |-> Trim(number), colour |-> colour],
                               [id |-> nextId + 1, number |-> Trim(number), colour |-> colour]>>
    /\ nextId' = nextId + 2

\* handleScanComplete(number, colour), the Scanner's onScanComplete.
handleScanComplete(number, colour) ==
    /\ tickets' = Append(tickets, [id |-> nextId, number |-> Trim(number), colour |-> colour])
    /\ nextId' = nextId + 1

\* An import that keeps the ids decodeTickets minted.
handleImportTicketsKeepIds(imported) ==
    /\ tickets' = tickets \o imported
    /\ nextId' = nextId + Len(imported)
    /\ qrImportOpen' = FALSE

\* handleImportTickets(imported), QRImport's onImport: fresh ids, append, close.
handleImportTickets(imported) ==
    /\ tickets' = tickets \o [i \in 1..Len(imported) |->
                                 [id     |-> nextId + (i - 1),
                                  number |-> imported[i].number,
                                  colour |-> imported[i].colour]]
    /\ nextId' = nextId + Len(imported)
    /\ qrImportOpen' = FALSE

-----------------------------------------------------------------------------
(* The camera device: navigator.mediaDevices.getUserMedia and MediaStream *)

MaxStreams == 2

InitDevice ==
    /\ nextStream = 1
    /\ scannerLive = {}
    /\ importLive = {}

\* What getUserMedia, video.play() or the video element reject with: the
\* error's name and its message, the message given by the substrings the code
\* looks for in it. The message of a DOMException is the browser's wording
\* and need not repeat the name.
CameraFailures ==
    {[name |-> "NotAllowedError",  message |-> {"Permission denied"}],
     [name |-> "NotAllowedError",  message |-> {}],
     [name |-> "NotFoundError",    message |-> {}],
     [name |-> "NotFoundError",    message |-> {"NotFoundError"}],
     [name |-> "NotReadableError", message |-> {}],
     [name |-> "Error",            message |-> {"NotAllowedError"}]}

\* The catch block of startCamera (Scanner.tsx:126-134, QRImport.tsx:98-112):
\* the text passed to setError.
CameraErrorText(message) ==
    IF "Permission denied" \in message \/ "NotAllowedError" \in message
    THEN "Camera permission denied. Please allow camera access in your browser settings."
    ELSE IF "NotFoundError" \in message
    THEN "No camera found on this device."
    ELSE "Camera error"

-----------------------------------------------------------------------------
(* Scanner.tsx *)

MaxRecognize == 2

COLOUR_RGB ==
    [c \in RaffleColour |->
        CASE c = "Red" -> <<229, 57, 53>> [] c = "Blue" -> <<30, 136, 229>>
          [] c = "Green" -> <<67, 160, 71>> [] c = "Yellow" -> <<253, 216, 53>>
          [] c = "Orange" -> <<251, 140, 0>> [] c = "Purple" -> <<142, 36, 170>>
          [] c = "Pink" -> <<216, 27, 96>> [] c = "White" -> <<245, 245, 245>>]

\* The square of the Euclidean distance (the square root keeps the order).
Distance2(avg, rgb) ==
    (avg[1] - rgb[1]) * (avg[1] - rgb[1]) + (avg[2] - rgb[2]) * (avg[2] - rgb[2])
        + (avg[3] - rgb[3]) * (avg[3] - rgb[3])

\* let minDistance = Infinity
Infinity == -1

\* A comparison that lets a later colour at the same distance win.
CloserOrEqual(distance, minDistance) ==
    minDistance = Infinity \/ distance <= minDistance

\* distance < minDistance
Closer(distance, minDistance) ==
    minDistance = Infinity \/ distance < minDistance

\* for (const colour of COLOURS) { ... }, from the i-th colour on. The average
\* is total / count; distances are compared after scaling by count, which
\* keeps their order and keeps the arithmetic exact.
RECURSIVE ClosestFrom(_, _, _, _, _)
ClosestFrom(total, count, i, closest, minDistance) ==
    IF i > Len(COLOURS) THEN closest
    ELSE LET rgb      == COLOUR_RGB[COLOURS[i]]
             distance == Distance2(total, <<count * rgb[1], count * rgb[2], count * rgb[3]>>)
         IN  IF Closer(distance, minDistance)
             THEN ClosestFrom(total, count, i + 1, COLOURS[i], distance)
             ELSE ClosestFrom(total, count, i + 1, closest, minDistance)

\* detectColour on the averaged sample avg = <<avgR, avgG, avgB>>.
detectColour(avg) == ClosestFrom(avg, 1, 1, "White", Infinity)

\* The colour of the frame under the scan region, as the camera delivers it.
FramePixels == {<<229, 57, 53>>, <<250, 250, 250>>}

\* What the recognize call of useOCR resolves to: null (the engine threw), or
\* a result with an empty or a non-empty text.
OCRResults ==
    {[isNull |-> TRUE,  text |-> <<>>],
     [isNull |-> FALSE, text |-> <<>>],
     [isNull |-> FALSE, text |-> <<"4", "2">>]}

\* What the user types into the number input of the confirm panel.
EditedNumbers == {<<>>, <<"7">>, <<" ">>}

InitScanner ==
    /\ scannerStatus = "idle"
    /\ scannerError = "null"
    /\ scannedNumber = <<>>
    /\ scannerColour = "Red"
    /\ scannerStreamRef = 0
    /\ scannerStart = "none"
    /\ captures = <<>>
    /\ enginesCreated = 0

\* videoRef.current and canvasRef.current: attached while the component is mounted.
ScannerVideoRef == scannerOpen

\* scanRegionRef.current: the scan region is rendered only in status ready
\* (Scanner.tsx:259-261).
ScanRegionRefAlways == scannerOpen

ScanRegionRef == scannerOpen /\ scannerStatus = "ready"

\* stopCamera (Scanner.tsx:139-144).
ScannerStopCamera ==
    /\ scannerLive' = scannerLive \ {scannerStreamRef}
    /\ scannerStreamRef' = 0

\* startCamera up to its first await: the mount effect and the error [RETRY].
ScannerStartCamera ==
    /\ scannerStatus' = "camera-loading"
    /\ scannerError' = "null"
    /\ scannerStart' = "getUserMedia"

\* The Scan button: setScannerOpen(true); the Scanner mounts with fresh state
\* and refs and its effect calls startCamera. The continuations of the
\* previous instance touch only that instance's refs, so the model lets them
\* run out first.
OpenScanner ==
    /\ ~scannerOpen
    /\ scannerStart = "none"
    /\ captures = <<>>
    /\ scannerOpen' = TRUE
    /\ scannedNumber' = <<>>
    /\ scannerColour' = selectedColour
    /\ scannerStreamRef' = 0
    /\ ScannerStartCamera
    /\ UNCHANGED <<tickets, nextId, selectedColour, qrExportOpen, qrImportOpen>>
    /\ UNCHANGED <<captures, enginesCreated, nextStream, scannerLive, importLive>>
    /\ UNCHANGED <<codecVars, harnessVars, exportVars, importVars>>

\* [RETRY] of the error overlay: onClick = startCamera.
ScannerRetryCamera ==
    /\ scannerOpen
    /\ scannerStatus = "error"
    /\ ScannerStartCamera
    /\ UNCHANGED <<scannedNumber, scannerColour, scannerStreamRef, captures, enginesCreated>>
    /\ UNCHANGED <<codecVars, harnessVars, appVars, exportVars, deviceVars, importVars>>

\* getUserMedia resolves: streamRef.current = stream; with a video element the
\* function goes on to wait for it, without one (unmounted) it ends.
ScannerGetUserMediaResolves ==
    /\ scannerStart = "getUserMedia"
    /\ nextStream <= MaxStreams
    /\ nextStream' = nextStream + 1
    /\ scannerLive' = scannerLive \cup {nextStream}
    /\ scannerStreamRef' = nextStream
    /\ scannerStart' = IF ScannerVideoRef THEN "videoReady" ELSE "none"
    /\ UNCHANGED <<scannerStatus, scannerError, scannedNumber, scannerColour, captures,
                   enginesCreated, importLive>>
    /\ UNCHANGED <<codecVars, harnessVars, appVars, exportVars, importVars>>

\* The catch block; setError and setStatus do nothing on an unmounted component.
ScannerCatch(message) ==
    /\ scannerStart' = "none"
    /\ scannerError' = IF scannerOpen THEN CameraErrorText(message) ELSE scannerError
    /\ scannerStatus' = IF scannerOpen THEN "error" ELSE scannerStatus
    /\ UNCHANGED <<scannedNumber, scannerColour, scannerStreamRef, captures, enginesCreated>>
    /\ UNCHANGED <<codecVars, harnessVars, appVars, exportVars, deviceVars, importVars>>

\* getUserMedia rejects.
ScannerGetUserMediaRejects ==
    /\ scannerStart = "getUserMedia"
    /\ \E err \in CameraFailures : ScannerCatch(err.message)

\* loadedmetadata fired and video.play() resolved: setStatus('ready').
ScannerVideoReady ==
    /\ scannerStart = "videoReady"
    /\ scannerStart' = "none"
    /\ scannerStatus' = IF scannerOpen THEN "ready" ELSE scannerStatus
    /\ UNCHANGED <<scannerError, scannedNumber, scannerColour, scannerStreamRef, captures,
                   enginesCreated>>
    /\ UNCHANGED <<codecVars, harnessVars, appVars, exportVars, deviceVars, importVars>>

\* video.onerror fired or video.play() rejected.
ScannerVideoFails ==
    /\ scannerStart = "videoReady"
    /\ \E err \in CameraFailures : ScannerCatch(err.message)

\* [X]: stopCamera(); onClose() = setScannerOpen(false); the unmount runs the
\* effect cleanup (stopCamera again) and drops the component's state.
ScannerHandleClose ==
    /\ scannerOpen
    /\ ScannerStopCamera
    /\ scannerOpen' = FALSE
    /\ scannerStatus' = "idle"
    /\ scannerError' = "null"
    /\ scannedNumber' = <<>>
    /\ scannerColour' = "Red"
    /\ UNCHANGED <<scannerStart, captures, enginesCreated, nextStream, importLive>>
    /\ UNCHANGED <<tickets, nextId, selectedColour, qrExportOpen, qrImportOpen>>
    /\ UNCHANGED <<codecVars, harnessVars, exportVars, importVars>>

\* captureAndRecognize up to await recognize(...). ctxOk: canvas.getContext('2d')
\* returned a context; pixel: the frame's colour under the scan region.
\* recognize calls Tesseract.recognize, which creates a worker for the call
\* (useOCR.ts:34; the hook keeps no worker).
captureAndRecognize(ctxOk, pixel) ==
    /\ scannerOpen
    /\ enginesCreated < MaxRecognize
    /\ IF ~(ScannerVideoRef /\ ScanRegionRef)
       THEN UNCHANGED <<scannerStatus, captures, enginesCreated>>
       ELSE IF ~ctxOk
       THEN /\ scannerStatus' = "capturing"
            /\ UNCHANGED <<captures, enginesCreated>>
       ELSE /\ scannerStatus' = "processing"
            /\ captures' = Append(captures, [detectedColour |-> detectColour(pixel)])
            /\ enginesCreated' = enginesCreated + 1
    /\ UNCHANGED <<scannerError, scannedNumber, scannerColour, scannerStreamRef, scannerStart>>
    /\ UNCHANGED <<codecVars, harnessVars, appVars, exportVars, deviceVars, importVars>>

\* seq without its k-th element.
RemoveAt(seq, k) == SubSeq(seq, 1, k - 1) \o SubSeq(seq, k + 1, Len(seq))

\* A continuation that takes over the detected colour whatever was read.
RecognizeSettlesSetsColour(k, result) ==
    /\ k \in 1..Len(captures)
    /\ captures' = RemoveAt(captures, k)
    /\ IF ~scannerOpen
       THEN UNCHANGED <<scannerStatus, scannerError, scannedNumber, scannerColour>>
       ELSE IF ~result.isNull /\ result.text # <<>>
       THEN /\ scannedNumber' = result.text
            /\ scannerColour' = captures[k].detectedColour
            /\ scannerStatus' = "confirm"
            /\ UNCHANGED scannerError
       ELSE /\ scannerError' = "Could not read ticket number. Try adjusting angle or lighting."
            /\ scannerStatus' = "ready"
            /\ scannerColour' = captures[k].detectedColour
            /\ UNCHANGED scannedNumber
    /\ UNCHANGED <<scannerStreamRef, scannerStart, enginesCreated>>
    /\ UNCHANGED <<codecVars, harnessVars, appVars, exportVars, deviceVars, importVars>>

\* A continuation that treats a failed recognition as a fatal error.
RecognizeSettlesFatal(k, result) ==
    /\ k \in 1..Len(captures)
    /\ captures' = RemoveAt(captures, k)
    /\ IF ~scannerOpen
       THEN UNCHANGED <<scannerStatus, scannerError, scannedNumber, scannerColour>>
       ELSE IF ~result.isNull /\ result.text # <<>>
       THEN /\ scannedNumber' = result.text
            /\ scannerColour' = captures[k].detectedColour
            /\ scannerStatus' = "confirm"
            /\ UNCHANGED scannerError
       ELSE /\ scannerError' = "Could not read ticket number. Try adjusting angle or lighting."
            /\ scannerStatus' = "error"
            /\ UNCHANGED <<scannedNumber, scannerColour>>
    /\ UNCHANGED <<scannerStreamRef, scannerStart, enginesCreated>>
    /\ UNCHANGED <<codecVars, harnessVars, appVars, exportVars, deviceVars, importVars>>

\* The k-th pending recognize call settles with result and captureAndRecognize
\* resumes (Scanner.tsx:203-214); the setters do nothing once unmounted.
RecognizeSettles(k, result) ==
    /\ k \in 1..Len(captures)
    /\ captures' = RemoveAt(captures, k)
    /\ IF ~scannerOpen
       THEN UNCHANGED <<scannerStatus, scannerError, scannedNumber, scannerColour>>
       ELSE IF ~result.isNull /\ result.text # <<>>
       THEN /\ scannedNumber' = result.text
            /\ scannerColour' = captures[k].detectedColour
            /\ scannerStatus' = "confirm"
            /\ UNCHANGED scannerError
       ELSE /\ scannerError' = "Could not read ticket number. Try adjusting angle or lighting."
            /\ scannerStatus' = "ready"
            /\ UNCHANGED <<scannedNumber, scannerColour>>
    /\ UNCHANGED <<scannerStreamRef, scannerStart, enginesCreated>>
    /\ UNCHANGED <<codecVars, harnessVars, appVars, exportVars, deviceVars, importVars>>

\* onChange of the number input in the confirm panel.
ScannerEditNumber(value) ==
    /\ scannerOpen
    /\ scannerStatus = "confirm"
    /\ scannedNumber # value
    /\ scannedNumber' = value
    /\ UNCHANGED <<scannerStatus, scannerError, scannerColour, scannerStreamRef, scannerStart,
                   captures, enginesCreated>>
    /\ UNCHANGED <<codecVars, harnessVars, appVars, exportVars, deviceVars, importVars>>

\* A colour button of the confirm panel.
ScannerPickColour(colour) ==
    /\ scannerOpen
    /\ scannerStatus = "confirm"
    /\ scannerColour # colour
    /\ scannerColour' = colour
    /\ UNCHANGED <<scannerStatus, scannerError, scannedNumber, scannerStreamRef, scannerStart,
                   captures, enginesCreated>>
    /\ UNCHANGED <<codecVars, harnessVars, appVars, exportVars, deviceVars, importVars>>

\* [ADD TICKET]: handleConfirm, which does nothing for an empty number.
ScannerHandleConfirm ==
    /\ scannerOpen
    /\ scannerStatus = "confirm"
    /\ scannedNumber # <<>>
    /\ nextId <= MaxNextId
    /\ handleScanComplete(scannedNumber, scannerColour)
    /\ scannedNumber' = <<>>
    /\ scannerStatus' = "ready"
    /\ UNCHANGED <<scannerError, scannerColour, scannerStreamRef, scannerStart, captures,
                   enginesCreated>>
    /\ UNCHANGED <<selectedColour, scannerOpen, qrExportOpen, qrImportOpen>>
    /\ UNCHANGED <<codecVars, harnessVars, deviceVars, importVars>>
    /\ RenderQRExport

\* [RETRY] of the confirm panel: handleRetry.
ScannerHandleRetry ==
    /\ scannerOpen
    /\ scannerStatus = "confirm"
    /\ scannedNumber' = <<>>
    /\ scannerError' = "null"
    /\ scannerStatus' = "ready"
    /\ UNCHANGED <<scannerColour, scannerStreamRef, scannerStart, captures, enginesCreated>>
    /\ UNCHANGED <<codecVars, harnessVars, appVars, exportVars, deviceVars, importVars>>

NextScanner ==
    \/ OpenScanner
    \/ ScannerRetryCamera
    \/ ScannerGetUserMediaResolves
    \/ ScannerGetUserMediaRejects
    \/ ScannerVideoReady
    \/ ScannerVideoFails
    \/ ScannerHandleClose
    \/ \E ctxOk \in BOOLEAN, pixel \in FramePixels : captureAndRecognize(ctxOk, pixel)
    \/ \E k \in 1..Len(captures), result \in OCRResults : RecognizeSettles(k, result)
    \/ \E value \in EditedNumbers : ScannerEditNumber(value)
    \/ \E colour \in {"Red", "White"} : ScannerPickColour(colour)
    \/ ScannerHandleConfirm
    \/ ScannerHandleRetry

-----------------------------------------------------------------------------
(* QRImport.tsx *)

MaxPayloadLen == 2

\* Characters of the payloads the camera is shown: a digit, a colour code
\* and the delimiter.
PayloadChars == {"1", "R", ","}

\* What jsQR returns for a frame: null, or a code with its data.
NoCode == [found |-> FALSE, data |-> <<>>]

QRCodes ==
    {NoCode} \cup {[found |-> TRUE, data |-> p] : p \in Strings(PayloadChars, MaxPayloadLen)}

InitImport ==
    /\ importStatus = "idle"
    /\ importError = "null"
    /\ importedTickets = Null
    /\ importStreamRef = 0
    /\ animationRef = "null"
    /\ importStart = "none"
    /\ qrData = NoCode
    /\ orphanPolls = 0

\* videoRef.current and canvasRef.current: attached while the component is mounted.
ImportVideoRef == qrImportOpen

\* stopCamera that forgets to cancel the scheduled poll.
ImportStopCameraKeepPoll ==
    /\ animationRef' = animationRef
    /\ importLive' = importLive \ {importStreamRef}
    /\ importStreamRef' = 0

\* stopCamera (QRImport.tsx:26-35): cancel the scheduled poll, stop the tracks.
ImportStopCamera ==
    /\ animationRef' = "null"
    /\ importLive' = importLive \ {importStreamRef}
    /\ importStreamRef' = 0

\* startCamera up to its first await.
ImportStartCamera ==
    /\ importStatus' = "camera-loading"
    /\ importError' = "null"
    /\ importStart' = "getUserMedia"

\* The Import button: setQRImportOpen(true); QRImport mounts with fresh state
\* and refs and its effect calls startCamera. A poll the previous instance
\* still has scheduled goes on polling on that instance's refs.
OpenImport ==
    /\ ~qrImportOpen
    /\ importStart = "none"
    /\ qrImportOpen' = TRUE
    /\ importedTickets' = Null
    /\ importStreamRef' = 0
    /\ animationRef' = "null"
    /\ orphanPolls' = orphanPolls + (IF animationRef = "pending" THEN 1 ELSE 0)
    /\ qrData' = NoCode
    /\ ImportStartCamera
    /\ UNCHANGED <<tickets, nextId, selectedColour, scannerOpen, qrExportOpen>>
    /\ UNCHANGED <<codecVars, harnessVars, exportVars, deviceVars, scannerVars>>

\* [RETRY] of the error overlay: onClick = startCamera.
ImportRetryCamera ==
    /\ qrImportOpen
    /\ importStatus = "error"
    /\ ImportStartCamera
    /\ UNCHANGED <<importedTickets, importStreamRef, animationRef, qrData, orphanPolls>>
    /\ UNCHANGED <<codecVars, harnessVars, appVars, exportVars, deviceVars, scannerVars>>

\* getUserMedia resolves: streamRef.current = stream; with a video element the
\* function goes on to wait for it, without one (unmounted) it ends.
ImportGetUserMediaResolves ==
    /\ importStart = "getUserMedia"
    /\ nextStream <= MaxStreams
    /\ nextStream' = nextStream + 1
    /\ importLive' = importLive \cup {nextStream}
    /\ importStreamRef' = nextStream
    /\ importStart' = IF ImportVideoRef THEN "videoReady" ELSE "none"
    /\ UNCHANGED <<importStatus, importError, importedTickets, animationRef, qrData,
                   orphanPolls, scannerLive>>
    /\ UNCHANGED <<codecVars, harnessVars, appVars, exportVars, scannerVars>>

\* The catch block; setError and setStatus do nothing on an unmounted component.
ImportCatch(message) ==
    /\ importStart' = "none"
    /\ importError' = IF qrImportOpen THEN CameraErrorText(message) ELSE importError
    /\ importStatus' = IF qrImportOpen THEN "error" ELSE importStatus
    /\ UNCHANGED <<importedTickets, importStreamRef, animationRef, qrData, orphanPolls>>
    /\ UNCHANGED <<codecVars, harnessVars, appVars, exportVars, deviceVars, scannerVars>>

ImportGetUserMediaRejects ==
    /\ importStart = "getUserMedia"
    /\ \E err \in CameraFailures : ImportCatch(err.message)

\* loadedmetadata fired and video.play() resolved: setStatus('scanning') and
\* the first poll is scheduled (QRImport.tsx:95-96).
ImportVideoReady ==
    /\ importStart = "videoReady"
    /\ importStart' = "none"
    /\ importStatus' = IF qrImportOpen THEN "scanning" ELSE importStatus
    /\ animationRef' = "pending"
    /\ UNCHANGED <<importError, importedTickets, importStreamRef, qrData, orphanPolls>>
    /\ UNCHANGED <<codecVars, harnessVars, appVars, exportVars, deviceVars, scannerVars>>

\* video.onerror fired or video.play() rejected.
ImportVideoFails ==
    /\ importStart = "videoReady"
    /\ \E err \in CameraFailures : ImportCatch(err.message)

\* The scheduled animation-frame callback runs. frameReady: the video has
\* HAVE_ENOUGH_DATA; ctxOk: getContext returned a context; code: what jsQR
\* finds in the frame; now: Date.now().
scanFrame(frameReady, ctxOk, code, now) ==
    /\ animationRef = "pending"
    /\ IF ~ImportVideoRef \/ ~frameReady
       THEN \* rescheduled
            UNCHANGED <<importStatus, importedTickets, importStreamRef, animationRef,
                        qrData, importLive>>
       ELSE IF ~ctxOk
       THEN /\ animationRef' = "fired"
            /\ UNCHANGED <<importStatus, importedTickets, importStreamRef, qrData, importLive>>
       ELSE LET decoded == decodeTickets(code.data, now)
            IN  /\ qrData' = code
                /\ IF code.found /\ ~decoded.isNull /\ Len(decoded.list) > 0
                   THEN /\ importedTickets' = decoded
                        /\ importStatus' = "success"
                        /\ ImportStopCamera
                   ELSE \* rescheduled
                        UNCHANGED <<importStatus, importedTickets, importStreamRef,
                                    animationRef, importLive>>
    /\ UNCHANGED <<importError, importStart, orphanPolls, nextStream, scannerLive>>
    /\ UNCHANGED <<codecVars, harnessVars, appVars, exportVars, scannerVars>>

\* The poll of an earlier, unmounted instance: no video element, rescheduled.
OrphanScanFrame ==
    /\ orphanPolls > 0
    /\ UNCHANGED vars

\* [SCAN AGAIN] of the success overlay.
handleScanAgain ==
    /\ qrImportOpen
    /\ importStatus = "success"
    /\ importedTickets' = Null
    /\ ImportStartCamera
    /\ UNCHANGED <<importStreamRef, animationRef, qrData, orphanPolls>>
    /\ UNCHANGED <<codecVars, harnessVars, appVars, exportVars, deviceVars, scannerVars>>

\* The component unmounts: the effect cleanup runs stopCamera and the state is dropped.
ImportUnmount ==
    /\ ImportStopCamera
    /\ importStatus' = "idle"
    /\ importError' = "null"
    /\ importedTickets' = Null
    /\ qrData' = NoCode

\* [IMPORT] of the success overlay: handleConfirm -> onImport = handleImportTickets,
\* which closes the modal.
ImportHandleConfirm ==
    /\ qrImportOpen
    /\ importStatus = "success"
    /\ ~importedTickets.isNull
    /\ nextId + Len(importedTickets.list) - 1 <= MaxNextId
    /\ handleImportTickets(importedTickets.list)
    /\ ImportUnmount
    /\ UNCHANGED <<importStart, orphanPolls, nextStream, scannerLive>>
    /\ UNCHANGED <<selectedColour, scannerOpen, qrExportOpen>>
    /\ UNCHANGED <<codecVars, harnessVars, scannerVars>>
    /\ RenderQRExport

\* [X]: stopCamera(); onClose() = setQRImportOpen(false); then the unmount.
ImportHandleClose ==
    /\ qrImportOpen
    /\ qrImportOpen' = FALSE
    /\ ImportUnmount
    /\ UNCHANGED <<importStart, orphanPolls, nextStream, scannerLive>>
    /\ UNCHANGED <<tickets, nextId, selectedColour, scannerOpen, qrExportOpen>>
    /\ UNCHANGED <<codecVars, harnessVars, exportVars, scannerVars>>

NextImport ==
    \/ OpenImport
    \/ ImportRetryCamera
    \/ ImportGetUserMediaResolves
    \/ ImportGetUserMediaRejects
    \/ ImportVideoReady
    \/ ImportVideoFails
    \/ \E frameReady \in BOOLEAN, ctxOk \in BOOLEAN, code \in QRCodes, now \in ClockValues :
          scanFrame(frameReady, ctxOk, code, now)
    \/ OrphanScanFrame
    \/ handleScanAgain
    \/ ImportHandleConfirm
    \/ ImportHandleClose

-----------------------------------------------------------------------------
(* useOCR.ts *)

MaxRawLen == 3

\* Characters of the engine's raw text: digits, a letter, the hyphen, white
\* space and a character the clean-up replaces.
OCRChars == {"1", "2", "O", "-", " ", "#"}

Digits == {"0", "1", "2", "3", "4", "5", "6", "7", "8", "9"}

Letters ==
    {"A", "B", "C", "D", "E", "F", "G", "H", "I", "J", "K", "L", "M",
     "N", "O", "P", "Q", "R", "S", "T", "U", "V", "W", "X", "Y", "Z",
     "a", "b", "c", "d", "e", "f", "g", "h", "i", "j", "k", "l", "m",
     "n", "o", "p", "q", "r", "s", "t", "u", "v", "w", "x", "y", "z"}

\* rawText.replace(/[^0-9A-Za-z\-]/g, ' ')
ReplaceOthers(s) ==
    [i \in 1..Len(s) |-> IF s[i] \in Digits \cup Letters \cup {"-"} THEN s[i] ELSE " "]

\* .split(/\s+/) of a string whose only white space is the space: the parts
\* between maximal runs of spaces, an empty part at a leading or trailing run.
RECURSIVE SplitSpaces(_)
SplitSpaces(s) ==
    IF \A i \in 1..Len(s) : s[i] # " " THEN <<s>>
    ELSE LET i == CHOOSE k \in 1..Len(s) :
                      s[k] = " " /\ \A j \in 1..(k - 1) : s[j] # " "
             j == CHOOSE k \in i..Len(s) :
                      /\ \A m \in i..k : s[m] = " "
                      /\ (k = Len(s) \/ s[k + 1] # " ")
         IN  <<SubSeq(s, 1, i - 1)>> \o SplitSpaces(SubSeq(s, j + 1, Len(s)))

\* .filter((word) => word.length > 0)
RECURSIVE NonEmptyWords(_)
NonEmptyWords(words) ==
    IF words = <<>> THEN <<>>
    ELSE IF Len(Head(words)) > 0 THEN <<Head(words)>> \o NonEmptyWords(Tail(words))
    ELSE NonEmptyWords(Tail(words))

cleanedText(rawText) ==
    Trim(Join(NonEmptyWords(SplitSpaces(ReplaceOthers(rawText))), <<" ">>))

\* rawText.match(/\d+/g) || []: the maximal digit runs, left to right.
RECURSIVE numbers(_)
numbers(s) ==
    IF \A i \in 1..Len(s) : s[i] \notin Digits THEN <<>>
    ELSE LET i == CHOOSE k \in 1..Len(s) :
                      s[k] \in Digits /\ \A j \in 1..(k - 1) : s[j] \notin Digits
             j == CHOOSE k \in i..Len(s) :
                      /\ \A m \in i..k : s[m] \in Digits
                      /\ (k = Len(s) \/ s[k + 1] \notin Digits)
         IN  <<SubSeq(s, i, j)>> \o numbers(SubSeq(s, j + 1, Len(s)))

\* A reducer that also replaces the best run by a later one of equal length.
PickLongestLast(best, current) ==
    IF Len(current) >= Len(best) THEN current ELSE best

\* (best, current) => current.length > best.length ? current : best
PickLongest(best, current) ==
    IF Len(current) > Len(best) THEN current ELSE best

\* numbers.reduce(..., '')
RECURSIVE Reduce(_, _)
Reduce(runs, best) ==
    IF runs = <<>> THEN best
    ELSE Reduce(Tail(runs), PickLongest(best, Head(runs)))

bestNumber(rawText) == Reduce(numbers(rawText), <<>>)

\* text: bestNumber || cleanedText
RecognizedText(rawText) ==
    IF bestNumber(rawText) # <<>> THEN bestNumber(rawText) ELSE cleanedText(rawText)

\* What Tesseract.recognize rejects with: an Error with its message, or a value
\* that is no Error.
OCRThrowables ==
    {[isError |-> TRUE, message |-> "Network error"],
     [isError |-> FALSE, message |-> "worker terminated"]}

NothingThrown == [isError |-> FALSE, message |-> "null"]

\* A catch block that records nothing.
errorMessageDropped(err) == "null"

\* err instanceof Error ? err.message : 'OCR failed'
errorMessage(err) == IF err.isError THEN err.message ELSE "OCR failed"

\* m.progress of the logger messages with status 'recognizing text', in 1/1000.
ProgressReports == {0, 495, 1000}

\* Math.round(m.progress * 100)
RoundPercent(permille) == (permille + 5) \div 10

NoResult == [isNull |-> TRUE, text |-> <<>>]

IdleOCR ==
    /\ isProcessing = FALSE
    /\ ocrError = "null"
    /\ progress = 0
    /\ ocrRawText = <<>>
    /\ ocrThrown = NothingThrown
    /\ ocrReturn = NoResult
    /\ ocrpc = "idle"

\* recognize, up to the await of Tesseract.recognize.
OCRRecognize ==
    /\ ocrpc # "running"
    /\ isProcessing' = TRUE
    /\ ocrError' = "null"
    /\ progress' = 0
    /\ ocrpc' = "running"
    /\ ocrRawText' = <<>>
    /\ ocrReturn' = NoResult
    /\ UNCHANGED ocrThrown
    /\ UNCHANGED <<codecVars, mapVars, colourVars, sampleVars, appVars, exportVars, deviceVars, scannerVars, importVars>>

\* The logger callback while the engine works.
OCRLogger(permille) ==
    /\ ocrpc = "running"
    /\ progress' = RoundPercent(permille)
    /\ UNCHANGED <<isProcessing, ocrError, ocrRawText, ocrThrown, ocrReturn, ocrpc>>
    /\ UNCHANGED <<codecVars, mapVars, colourVars, sampleVars, appVars, exportVars, deviceVars, scannerVars, importVars>>

\* recognize after the engine answered with result.data.text = rawText.
OCRResolves(rawText) ==
    /\ ocrpc = "running"
    /\ ocrRawText' = rawText
    /\ ocrThrown' = NothingThrown
    /\ isProcessing' = FALSE
    /\ ocrReturn' = [isNull |-> FALSE, text |-> RecognizedText(rawText)]
    /\ ocrpc' = "returned"
    /\ UNCHANGED <<ocrError, progress>>
    /\ UNCHANGED <<codecVars, mapVars, colourVars, sampleVars, appVars, exportVars, deviceVars, scannerVars, importVars>>

\* recognize's catch block after the engine threw err.
OCRCatch(err) ==
    /\ ocrpc = "running"
    /\ ocrThrown' = err
    /\ ocrError' = errorMessage(err)
    /\ isProcessing' = FALSE
    /\ ocrReturn' = NoResult
    /\ ocrpc' = "returned"
    /\ UNCHANGED <<ocrRawText, progress>>
    /\ UNCHANGED <<codecVars, mapVars, colourVars, sampleVars, appVars, exportVars, deviceVars, scannerVars, importVars>>

NextOCR ==
    \/ OCRRecognize
    \/ \E permille \in ProgressReports : OCRLogger(permille)
    \/ \E rawText \in Strings(OCRChars, MaxRawLen) : OCRResolves(rawText)
    \/ \E err \in OCRThrowables : OCRCatch(err)

-----------------------------------------------------------------------------
(* Scanner.tsx: the coordinate mapping of captureAndRecognize *)

MaxVideoSize == 3

MaxDisplaySize == 3

\* Truncation in place of rounding.
RoundDown(p, q) == p \div q

\* Math.round of the rational p / q (p >= 0, q > 0): the nearest integer,
\* halves up.
Round(p, q) == (2 * p + q) \div (2 * q)

\* The rectangle of Scanner.tsx:172-193 in exact arithmetic. g holds
\* video.videoWidth/videoHeight, videoRect.width/height (displayWidth,
\* displayHeight), relativeLeft, relativeTop and scanRect.width/height.
\* videoAspect > displayAspect is compared cross-multiplied; scale is
\* videoHeight / displayHeight in the first branch, videoWidth / displayWidth
\* in the second.
ScanRectangle(g) ==
    IF g.videoWidth * g.displayHeight > g.videoHeight * g.displayWidth
    THEN [left   |-> Round(g.videoWidth * g.displayHeight - g.displayWidth * g.videoHeight
                              + 2 * g.relativeLeft * g.videoHeight,
                           2 * g.displayHeight),
          top    |-> Round(g.relativeTop * g.videoHeight, g.displayHeight),
          width  |-> Round(g.width * g.videoHeight, g.displayHeight),
          height |-> Round(g.height * g.videoHeight, g.displayHeight)]
    ELSE [left   |-> Round(g.relativeLeft * g.videoWidth, g.displayWidth),
          top    |-> Round(g.videoHeight * g.displayWidth - g.displayHeight * g.videoWidth
                              + 2 * g.relativeTop * g.videoWidth,
                           2 * g.displayWidth),
          width  |-> Round(g.width * g.videoWidth, g.displayWidth),
          height |-> Round(g.height * g.videoWidth, g.displayWidth)]

\* Video and display sizes with a scan region inside the display box.
Geometries ==
    {g \in [videoWidth : 1..MaxVideoSize, videoHeight : 1..MaxVideoSize,
            displayWidth : 1..MaxDisplaySize, displayHeight : 1..MaxDisplaySize,
            relativeLeft : 0..MaxDisplaySize, relativeTop : 0..MaxDisplaySize,
            width : 1..MaxDisplaySize, height : 1..MaxDisplaySize] :
        /\ g.relativeLeft + g.width <= g.displayWidth
        /\ g.relativeTop + g.height <= g.displayHeight}

NoRectangle == [left |-> 0, top |-> 0, width |-> 0, height |-> 0]

NoGeometry ==
    [videoWidth |-> 1, videoHeight |-> 1, displayWidth |-> 1, displayHeight |-> 1,
     relativeLeft |-> 0, relativeTop |-> 0, width |-> 1, height |-> 1]

IdleMap ==
    /\ geometry = NoGeometry
    /\ rectangle = NoRectangle
    /\ mappc = "input"

InitMapVars ==
    /\ geometry \in Geometries
    /\ rectangle = NoRectangle
    /\ mappc = "input"

MapScanRegion ==
    /\ mappc = "input"
    /\ rectangle' = ScanRectangle(geometry)
    /\ mappc' = "mapped"
    /\ UNCHANGED <<geometry, codecVars, ocrVars, colourVars, sampleVars>>
    /\ UNCHANGED <<appVars, exportVars, deviceVars, scannerVars, importVars>>

IdleColour ==
    /\ avgSample = <<0, 0, 0>>
    /\ closestColour = "White"
    /\ colourpc = "input"

SampleSteps == 3

\* Averaged samples: a grid over the colour cube, the reference colours, and
\* points at the same least distance from two reference colours.
AvgSamples ==
    LET level == {(255 * k) \div SampleSteps : k \in 0..SampleSteps}
    IN  (level \X level \X level)
            \cup {COLOUR_RGB[c] : c \in RaffleColour}
            \cup {<<241, 96, 23>>, <<210, 51, 77>>, <<144, 179, 228>>, <<160, 188, 62>>}

InitColourVars ==
    /\ avgSample \in AvgSamples
    /\ closestColour = "White"
    /\ colourpc = "input"

DetectColour ==
    /\ colourpc = "input"
    /\ closestColour' = detectColour(avgSample)
    /\ colourpc' = "detected"
    /\ UNCHANGED <<avgSample, codecVars, ocrVars, mapVars, sampleVars>>
    /\ UNCHANGED <<appVars, exportVars, deviceVars, scannerVars, importVars>>

-----------------------------------------------------------------------------
(* Scanner.tsx: detectColour with its sampling, on its own *)

sampleSize == 20

\* The sample points of detectColour (Scanner.tsx:25-39), rounded as the loop
\* of Scanner.tsx:41-42 rounds them: four per i, i = 0 .. sampleSize - 1.
SamplePoints(rect) ==
    [n \in 1..(4 * sampleSize) |->
        LET i == (n - 1) % sampleSize
            x == Round(sampleSize * rect.left + rect.width * i, sampleSize)
            y == Round(sampleSize * rect.top + rect.height * i, sampleSize)
        IN  IF n <= sampleSize THEN <<x, rect.top + 5>>
            ELSE IF n <= 2 * sampleSize THEN <<x, rect.top + rect.height - 5>>
            ELSE IF n <= 3 * sampleSize THEN <<rect.left + 5, y>>
            ELSE <<rect.left + rect.width - 5, y>>]

\* ctx.getImageData(x, y, 1, 1).data: the frame's pixel, transparent black
\* outside the canvas.
GetImageData(ctx, point) ==
    IF point[1] \in 0..(ctx.width - 1) /\ point[2] \in 0..(ctx.height - 1)
    THEN ctx.pixel
    ELSE <<0, 0, 0>>

\* totalR, totalG, totalB after the loop of Scanner.tsx:41-47, the sample
\* points grouped by the pixel value read at them.
RECURSIVE SumPixels(_, _, _)
SumPixels(ctx, points, values) ==
    IF values = {} THEN <<0, 0, 0>>
    ELSE LET pixel == CHOOSE v \in values : TRUE
             times == Cardinality({n \in 1..Len(points) : GetImageData(ctx, points[n]) = pixel})
             rest  == SumPixels(ctx, points, values \ {pixel})
         IN  <<times * pixel[1] + rest[1], times * pixel[2] + rest[2],
               times * pixel[3] + rest[3]>>

\* detectColour(ctx, rect), the whole function.
detectColourRect(ctx, rect) ==
    LET samplePoints == SamplePoints(rect)
        count        == Len(samplePoints)
        values       == {GetImageData(ctx, samplePoints[n]) : n \in 1..count}
    IN  ClosestFrom(SumPixels(ctx, samplePoints, values), count, 1, "White", Infinity)

MaxRectPos == 6

MaxRectSize == 2

CanvasSize == 12

\* The captured frame: a canvas of one colour.
SampleFrames ==
    {[width |-> CanvasSize, height |-> CanvasSize, pixel |-> COLOUR_RGB[c]] :
        c \in {"Red", "Yellow"}}

\* Sensor rectangles, the degenerate ones (zero width or height) included.
SampleRects ==
    [left : 0..MaxRectPos, top : 0..MaxRectPos, width : 0..MaxRectSize, height : 0..MaxRectSize]

IdleSample ==
    /\ sampleCtx = [width |-> 0, height |-> 0, pixel |-> <<0, 0, 0>>]
    /\ sampleRect = [left |-> 0, top |-> 0, width |-> 0, height |-> 0]
    /\ sampledColour = "White"
    /\ samplepc = "input"

InitSampleVars ==
    /\ sampleCtx \in SampleFrames
    /\ sampleRect \in SampleRects
    /\ sampledColour = "White"
    /\ samplepc = "input"

DetectColourRect ==
    /\ samplepc = "input"
    /\ sampledColour' = detectColourRect(sampleCtx, sampleRect)
    /\ samplepc' = "detected"
    /\ UNCHANGED <<sampleCtx, sampleRect, codecVars, ocrVars, mapVars, colourVars>>
    /\ UNCHANGED <<appVars, exportVars, deviceVars, scannerVars, importVars>>

-----------------------------------------------------------------------------
(* App.tsx on its own: the Scanner and QRImport children reduced to the   *)
(* calls they make of onScanComplete and onImport                          *)

\* What is typed into the ticket input.
AppNumbers == {<<"1">>, <<" ", "2">>, <<" ">>}

\* What the Scanner passes to onScanComplete: a truthy number and a colour.
ScanNumbers == {<<"4", "2">>, <<" ">>}

\* What QRImport passes to onImport: a non-empty result of decodeTickets.
ImportedLists ==
    {decodeTickets(data, now).list :
        data \in Strings(PayloadChars, MaxPayloadLen) \ {<<>>}, now \in ClockValues}

OnScanComplete(number, colour) ==
    /\ nextId <= MaxNextId
    /\ handleScanComplete(number, colour)
    /\ UNCHANGED <<selectedColour, scannerOpen, qrExportOpen, qrImportOpen>>
    /\ UNCHANGED <<codecVars, harnessVars, deviceVars, scannerVars, importVars>>
    /\ RenderQRExport

OnImport(imported) ==
    /\ nextId + Len(imported) - 1 <= MaxNextId
    /\ handleImportTickets(imported)
    /\ UNCHANGED <<selectedColour, scannerOpen, qrExportOpen>>
    /\ UNCHANGED <<codecVars, harnessVars, deviceVars, scannerVars, importVars>>
    /\ RenderQRExport

NextApp ==
    \/ \E ticketNumber \in AppNumbers : handleAddTicket(ticketNumber)
    \/ \E id \in 1..MaxNextId : handleRemoveTicket(id)
    \/ \E colour \in {"Red", "Pink"} : SelectColour(colour)
    \/ \E number \in ScanNumbers : OnScanComplete(number, "White")
    \/ \E imported \in ImportedLists : OnImport(imported)

-----------------------------------------------------------------------------
(* Specifications *)

IdleHarness == IdleOCR /\ IdleMap /\ IdleColour /\ IdleSample

InitAll ==
    /\ IdleCodecVars
    /\ IdleHarness
    /\ InitApp
    /\ InitExport
    /\ InitDevice
    /\ InitScanner
    /\ InitImport

\* The export modal over a collection built by manual adds and removals.
ExportNumbers ==
    LET half == MAX_SAFE_BYTES \div 2
        DigitRun(n) == [i \in 1..n |-> "1"]
    IN  {DigitRun(1), DigitRun(half - 2), DigitRun(half - 1),
         <<"U+00E9">> \o DigitRun(half - 3)}

NextExport ==
    \/ \E ticketNumber \in ExportNumbers : handleAddTicket(ticketNumber)
    \/ \E id \in 1..MaxNextId : handleRemoveTicket(id)
    \/ \E colour \in {"Red", "Pink"} : SelectColour(colour)
    \/ OpenExport
    \/ CloseExport

SpecExport == InitAll /\ [][NextExport]_vars

SpecScanner == InitAll /\ [][NextScanner]_vars

\* The Scanner with every recognize call settling: the promise of
\* useOCR's recognize resolves or is caught (useOCR.ts:28-75).
SpecScannerLive ==
    /\ InitAll
    /\ [][NextScanner]_vars
    /\ WF_vars(\E k \in 1..Len(captures), result \in OCRResults : RecognizeSettles(k, result))

SpecImport == InitAll /\ [][NextImport]_vars

\* Both camera flows under the App, which lets both be open at once.
Init == InitAll

Next == NextScanner \/ NextImport

Spec == Init /\ [][Next]_vars

InitCodec ==
    /\ InitCodecVars
    /\ IdleHarness
    /\ InitApp
    /\ InitExport
    /\ InitDevice
    /\ InitScanner
    /\ InitImport

NextCodec == CodecEncode \/ CodecDecode

SpecCodec == InitCodec /\ [][NextCodec]_vars

InitDecode ==
    /\ InitPayloadVars
    /\ IdleHarness
    /\ InitApp
    /\ InitExport
    /\ InitDevice
    /\ InitScanner
    /\ InitImport

NextDecode == CodecDecodePayload

SpecDecode == InitDecode /\ [][NextDecode]_vars

InitMap ==
    /\ IdleCodecVars
    /\ IdleOCR
    /\ InitMapVars
    /\ IdleColour
    /\ IdleSample
    /\ InitApp
    /\ InitExport
    /\ InitDevice
    /\ InitScanner
    /\ InitImport

NextMap == MapScanRegion

\* The coordinate mapping applied to every geometry.
SpecMap == InitMap /\ [][NextMap]_vars

InitColour ==
    /\ IdleCodecVars
    /\ IdleOCR
    /\ IdleMap
    /\ InitColourVars
    /\ IdleSample
    /\ InitApp
    /\ InitExport
    /\ InitDevice
    /\ InitScanner
    /\ InitImport

NextColour == DetectColour

\* detectColour applied to every averaged sample.
SpecColour == InitColour /\ [][NextColour]_vars

InitSample ==
    /\ IdleCodecVars
    /\ IdleOCR
    /\ IdleMap
    /\ IdleColour
    /\ InitSampleVars
    /\ InitApp
    /\ InitExport
    /\ InitDevice
    /\ InitScanner
    /\ InitImport

NextSample == DetectColourRect

\* detectColour applied to frames and sensor rectangles.
SpecSample == InitSample /\ [][NextSample]_vars

\* The ticket collection under every way of changing it.
SpecApp == InitAll /\ [][NextApp]_vars

\* The OCR hook alone, its recognize calls one after the other.
SpecOCR == InitAll /\ [][NextOCR]_vars

-----------------------------------------------------------------------------
(* Claims about the codec *)

NoComma(ts) ==
    \A i \in 1..Len(ts) :
        \A k \in 1..Len(ts[i].number) : ts[i].number[k] # ","

SameNumberAndColour(ts, result) ==
    /\ ~result.isNull
    /\ Len(result.list) = Len(ts)
    /\ \A i \in 1..Len(ts) :
          /\ result.list[i].number = ts[i].number
          /\ result.list[i].colour = ts[i].colour

\* C1 (as stated): for every ticket sequence, of any length, whose numbers
\* contain no comma, decodeTickets(encodeTickets(tickets)) is a sequence of
\* the same length with the same number and colour at every position.
C1_RoundTripAnyLength ==
    (cpc = "decoded" /\ NoComma(cTickets)) => SameNumberAndColour(cTickets, cResult)

\* C1 (amended): the round trip holds for every NON-EMPTY ticket sequence
\* whose numbers contain no comma; the empty sequence encodes to "" and
\* decodeTickets("") is null.
C1_RoundTripNonEmpty ==
    /\ (cpc = "decoded" /\ NoComma(cTickets) /\ Len(cTickets) > 0)
          => SameNumberAndColour(cTickets, cResult)
    /\ (cpc = "decoded" /\ cTickets = <<>>) => cResult.isNull

C1_Witness ==
    /\ cpc = "decoded"
    /\ Len(cTickets) = 2
    /\ NoComma(cTickets)
    /\ cTickets[1].number = <<"1">>
    /\ cTickets[1].colour = "Purple"
    /\ cTickets[2].colour = "Pink"
    /\ Len(cResult.list) = 2

\* The colour-code table as the claim C10 gives it.
C10_Code(colour) ==
    CASE colour = "Red" -> "R" [] colour = "Blue" -> "B" [] colour = "Green" -> "G"
      [] colour = "Yellow" -> "Y" [] colour = "Orange" -> "O" [] colour = "Purple" -> "P"
      [] colour = "Pink" -> "K" [] colour = "White" -> "W"

\* Number of characters before entry i: the earlier entries, each followed by a comma.
RECURSIVE C10_Offset(_, _)
C10_Offset(ts, i) ==
    IF i = 1 THEN 0
    ELSE C10_Offset(ts, i - 1) + Len(ts[i - 1].number) + 2

C10_Layout(ts, s) ==
    /\ Len(s) = IF ts = <<>> THEN 0 ELSE C10_Offset(ts, Len(ts) + 1) - 1
    /\ \A i \in 1..Len(ts) :
          LET off == C10_Offset(ts, i)
              n   == Len(ts[i].number)
          IN  /\ SubSeq(s, off + 1, off + n) = ts[i].number
              /\ s[off + n + 1] = C10_Code(ts[i].colour)
              /\ (i > 1 => s[off] = ",")

C22_Code(colour) ==
    CASE colour = "Red" -> "R" [] colour = "Blue" -> "B" [] colour = "Green" -> "G"
      [] colour = "Yellow" -> "Y" [] colour = "Orange" -> "O" [] colour = "Purple" -> "U"
      [] colour = "Pink" -> "P" [] colour = "White" -> "W"

\* C22: the colour codes are R=Red, B=Blue, G=Green, Y=Yellow, O=Orange,
\* U=Purple, P=Pink, W=White: encodeTickets ends a ticket's entry with the
\* code of its colour ('U' for Purple, 'P' for Pink) and decodeTickets reads
\* an entry that ends in a code as that colour ('P' as Pink).
C22_DocumentedCodes ==
    /\ (cpc # "input" /\ NoComma(cTickets)) =>
          \A i \in 1..Len(cTickets) :
              cData[C10_Offset(cTickets, i) + Len(cTickets[i].number) + 1]
                  = C22_Code(cTickets[i].colour)
    /\ (cpc = "decoded" /\ NoComma(cTickets) /\ ~cResult.isNull) =>
          \A i \in 1..Len(cResult.list) :
              LET code == cData[C10_Offset(cTickets, i) + Len(cTickets[i].number) + 1]
              IN  \A colour \in RaffleColour :
                      code = C22_Code(colour) => cResult.list[i].colour = colour

\* Positions of the delimiter in a payload, and the entry between the
\* (k-1)-th and the k-th of them (k = 1 .. number of delimiters + 1).
C11_Commas(data) == {i \in 1..Len(data) : data[i] = ","}

C11_CommaAt(data, k) ==
    IF k = 0 THEN 0
    ELSE IF k > Cardinality(C11_Commas(data)) THEN Len(data) + 1
    ELSE CHOOSE p \in C11_Commas(data) :
             Cardinality({q \in C11_Commas(data) : q < p}) = k - 1

C11_Entry(data, k) ==
    SubSeq(data, C11_CommaAt(data, k - 1) + 1, C11_CommaAt(data, k) - 1)

C11_TicketOf(entry, t) ==
    /\ t.number = (IF entry = <<>> THEN <<>> ELSE SubSeq(entry, 1, Len(entry) - 1))
    /\ t.colour = (IF entry = <<>> THEN "White"
                   ELSE CASE entry[Len(entry)] = "R" -> "Red"
                          [] entry[Len(entry)] = "B" -> "Blue"
                          [] entry[Len(entry)] = "G" -> "Green"
                          [] entry[Len(entry)] = "Y" -> "Yellow"
                          [] entry[Len(entry)] = "O" -> "Orange"
                          [] entry[Len(entry)] = "P" -> "Purple"
                          [] entry[Len(entry)] = "K" -> "Pink"
                          [] OTHER -> "White")

\* C11: decodeTickets returns null for the empty payload and, for any other
\* payload, one ticket per comma-separated entry, in order, with the entry's
\* last character mapped through the inverse table (White when it is no code)
\* and the rest of the entry as the number; the result is never an empty or
\* partial list.
C11_DecodeTotal ==
    cpc = "parsed" =>
        /\ cResult.isNull <=> cData = <<>>
        /\ ~cResult.isNull =>
              /\ Len(cResult.list) = Cardinality(C11_Commas(cData)) + 1
              /\ \A k \in 1..Len(cResult.list) :
                    C11_TicketOf(C11_Entry(cData, k), cResult.list[k])

C11_Witness ==
    /\ cpc = "parsed"
    /\ cData = <<"x", ",", "K">>
    /\ Len(cResult.list) = 2
    /\ cResult.list[1].colour = "White"
    /\ cResult.list[2].colour = "Pink"
    /\ cResult.list[2].number = <<>>

-----------------------------------------------------------------------------
(* Claims about the OCR hook *)

C12_IsRun(s, i, j, Class) ==
    /\ i <= j
    /\ \A m \in i..j : s[m] \in Class
    /\ (i = 1 \/ s[i - 1] \notin Class)
    /\ (j = Len(s) \/ s[j + 1] \notin Class)

\* text is a maximal digit run of raw, none is longer, and none of the same
\* length starts before it.
C12_LongestFirstRun(raw, text) ==
    \E i, j \in 1..Len(raw) :
        /\ C12_IsRun(raw, i, j, Digits)
        /\ text = SubSeq(raw, i, j)
        /\ \A i2, j2 \in 1..Len(raw) :
              C12_IsRun(raw, i2, j2, Digits) =>
                  \/ j2 - i2 < j - i
                  \/ (j2 - i2 = j - i /\ i2 >= i)

C12_WordChars == Digits \cup Letters \cup {"-"}

C12_WordStarts(raw) ==
    {i \in 1..Len(raw) : raw[i] \in C12_WordChars /\ (i = 1 \/ raw[i - 1] \notin C12_WordChars)}

\* The words of raw (maximal runs of letters, digits and hyphens), in order.
C12_Words(raw) ==
    [k \in 1..Cardinality(C12_WordStarts(raw)) |->
        LET i == CHOOSE p \in C12_WordStarts(raw) :
                     Cardinality({q \in C12_WordStarts(raw) : q < p}) = k - 1
            j == CHOOSE e \in i..Len(raw) : C12_IsRun(raw, i, e, C12_WordChars)
        IN  SubSeq(raw, i, j)]

C13_AfterThrowMessage ==
    (ocrpc = "returned" /\ ocrThrown # NothingThrown) =>
        /\ ocrReturn.isNull
        /\ ~isProcessing
        /\ ocrError = ocrThrown.message

C13_AfterThrow ==
    (ocrpc = "returned" /\ ocrThrown # NothingThrown) =>
        /\ ocrReturn.isNull
        /\ ~isProcessing
        /\ ocrError # "null"
        /\ ocrThrown.isError => ocrError = ocrThrown.message
        /\ ~ocrThrown.isError => ocrError = "OCR failed"

C13_StartResets ==
    (ocrpc # "running" /\ ocrpc' = "running") =>
        (ocrError' = "null" /\ progress' = 0 /\ isProcessing')

\* C13 (amended): after the engine threw, recognize has resolved to null,
\* isProcessing is false and error holds the thrown Error's message, or the
\* fixed text 'OCR failed' when what was thrown is no Error; a recognize call
\* that starts resets error to null and progress to 0.
C13_ThrowYieldsNull == []C13_AfterThrow /\ [][C13_StartResets]_vars

C13_Witness ==
    /\ ocrpc = "running"
    /\ ocrThrown.isError
    /\ ocrReturn.isNull
    /\ ocrError = "null"
    /\ progress = 0
    /\ isProcessing

-----------------------------------------------------------------------------
(* Claims about the coordinate mapping *)

C14_FullBox(g) ==
    /\ g.relativeLeft = 0
    /\ g.relativeTop = 0
    /\ g.width = g.displayWidth
    /\ g.height = g.displayHeight

\* n is the integer nearest to p / q, the upper one of two (q > 0).
C14_Nearest(n, p, q) == -q < 2 * (q * n - p) /\ 2 * (q * n - p) <= q

C15_SensorRectInFrame ==
    mappc = "mapped" =>
        /\ rectangle.left >= 0
        /\ rectangle.top >= 0
        /\ rectangle.left + rectangle.width <= geometry.videoWidth
        /\ rectangle.top + rectangle.height <= geometry.videoHeight

\* What does hold: the rectangle starts inside the frame and passes its far
\* edges by at most one pixel.
SensorRectWithinOnePixel ==
    mappc = "mapped" =>
        /\ rectangle.left >= 0
        /\ rectangle.top >= 0
        /\ rectangle.left + rectangle.width <= geometry.videoWidth + 1
        /\ rectangle.top + rectangle.height <= geometry.videoHeight + 1

-----------------------------------------------------------------------------
(* Claims about the colour classifier *)

\* C16: detectColour returns the reference colour at the least Euclidean
\* distance from the averaged sample, the earliest in the order Red, Blue,
\* Green, Yellow, Orange, Purple, Pink, White among those at that distance; a
\* sample equal to a reference colour's RGB triple gives that colour.
C16_NearestFirst ==
    colourpc = "detected" =>
        /\ \E i \in 1..8 :
              /\ closestColour =
                     <<"Red", "Blue", "Green", "Yellow", "Orange", "Purple", "Pink", "White">>[i]
              /\ \A j \in 1..8 :
                    Distance2(avgSample, COLOUR_RGB[COLOURS[i]])
                        <= Distance2(avgSample, COLOUR_RGB[COLOURS[j]])
              /\ \A j \in 1..(i - 1) :
                    Distance2(avgSample, COLOUR_RGB[COLOURS[j]])
                        > Distance2(avgSample, COLOUR_RGB[COLOURS[i]])
        /\ \A c \in RaffleColour : avgSample = COLOUR_RGB[c] => closestColour = c

C16_Witness ==
    /\ colourpc = "detected"
    /\ avgSample = <<160, 188, 62>>
    /\ Distance2(avgSample, COLOUR_RGB["Green"]) = Distance2(avgSample, COLOUR_RGB["Yellow"])
    /\ closestColour = "Green"

C26_Degenerate(rect) == rect.width = 0 \/ rect.height = 0

\* C26: for a sensor rectangle with zero width or zero height detectColour
\* returns the fixed fallback colour (White), not a colour computed from
\* pixels outside the rectangle.
C26_DegenerateGivesFallback ==
    (samplepc = "detected" /\ C26_Degenerate(sampleRect)) => sampledColour = "White"

\* What holds instead: the number of sample points does not depend on the
\* rectangle, so the average is always defined and the result is the colour
\* nearest to it, for a rectangle of no extent the colour of the frame at 5
\* pixels from its position.
SamplesAlwaysTaken ==
    /\ Len(SamplePoints(sampleRect)) = 4 * sampleSize
    /\ (samplepc = "detected" /\ sampleRect.width = 0 /\ sampleRect.height = 0
            /\ sampleRect.left = 5 /\ sampleRect.top = 5) =>
          sampledColour = detectColour(sampleCtx.pixel)

-----------------------------------------------------------------------------
(* Claims about the camera flows *)

\* Sanity of the model: startCamera is never entered while an earlier call of
\* the same instance is still suspended, and the refs hold what was acquired.
FlowsOK ==
    /\ scannerStatus \in {"idle", "camera-loading", "ready", "capturing", "processing",
                          "confirm", "error"}
    /\ importStatus \in {"idle", "camera-loading", "scanning", "success", "error"}
    /\ scannerStatus \in {"error", "ready", "confirm"} => scannerStart = "none"
    /\ importStatus \in {"error", "scanning", "success"} => importStart = "none"
    /\ scannerStreamRef # 0 => scannerStreamRef \in scannerLive
    /\ importStreamRef # 0 => importStreamRef \in importLive
    /\ animationRef = "pending" /\ qrImportOpen => importStatus = "scanning"

\* C2: once a flow (Scanner or QRImport) is closed, every stream getUserMedia
\* resolved for it, before or after the close, ends up stopped: with the flow
\* closed and no getUserMedia call of it still pending, none of its streams
\* has running tracks.
C2_NoStreamOutlivesClose ==
    /\ (~scannerOpen /\ scannerStart # "getUserMedia") => scannerLive = {}
    /\ (~qrImportOpen /\ importStart # "getUserMedia") => importLive = {}

\* C3: after QRImport is closed no scanFrame poll is pending, whether of the
\* instance just closed or of an earlier one.
C3_NoPollAfterClose ==
    ~qrImportOpen => (animationRef # "pending" /\ orphanPolls = 0)

\* C4: in a Scanner session at most one capture is in flight: at most one
\* recognize call is outstanding, it is outstanding only in status processing,
\* and a capture action taken in status capturing or processing changes
\* nothing (no frame grab, no recognize call, no engine).
C4_AtMostOne ==
    /\ Len(captures) <= 1
    /\ (scannerOpen /\ captures # <<>>) => scannerStatus = "processing"

C4_BusyStartsNothing ==
    scannerStatus \in {"capturing", "processing"} =>
        (Len(captures') <= Len(captures) /\ enginesCreated' = enginesCreated)

C4_OneCaptureInFlight == []C4_AtMostOne /\ [][C4_BusyStartsNothing]_vars

C4_Witness ==
    /\ scannerOpen
    /\ scannerStatus = "processing"
    /\ Len(captures) = 1
    /\ enginesCreated = 1
    /\ ENABLED captureAndRecognize(TRUE, <<229, 57, 53>>)

\* C5: the poll that decodes a non-empty ticket sequence stops polling, stops
\* the stream the flow holds and sets status success, in one step; so in every
\* state with status success the stream handle is released, no poll is
\* scheduled and importedTickets is the non-empty decoded sequence of the
\* payload just read.
C5_InSuccess ==
    importStatus = "success" =>
        /\ importStreamRef = 0
        /\ animationRef = "null"
        /\ ~importedTickets.isNull
        /\ Len(importedTickets.list) > 0
        /\ qrData.found
        /\ \E now \in ClockValues : importedTickets = decodeTickets(qrData.data, now)

C5_SuccessStep ==
    (importStatus # "success" /\ importStatus' = "success") =>
        /\ importStatus = "scanning"
        /\ animationRef = "pending"
        /\ importStreamRef \in importLive
        /\ importStreamRef \notin importLive'

C5_SuccessReleases == []C5_InSuccess /\ [][C5_SuccessStep]_vars

C5_Witness ==
    /\ qrImportOpen
    /\ importStatus = "success"
    /\ qrData.data = <<"1", "R">>
    /\ Len(importedTickets.list) = 1
    /\ importedTickets.list[1].colour = "Red"
    /\ importLive = {}

\* A payload is well formed when it is a comma-separated list of entries, each
\* a non-empty number followed by one of the 8 colour-code characters.
WellFormedPayload(data) ==
    /\ data # <<>>
    /\ \A i \in 1..Len(Split(data, ",")) :
          LET entry == Split(data, ",")[i]
          IN  /\ Len(entry) >= 2
              /\ entry[Len(entry)] \in {"R", "B", "G", "Y", "O", "P", "K", "W"}

\* C6: a symbol whose payload is empty or malformed never stops the scan:
\* status success is reached only on a well-formed payload.
C6_MalformedKeepsScanning ==
    importStatus = "success" => WellFormedPayload(qrData.data)

\* C7: no acquired stream is leaked across failures and retries: in status
\* error no stream of the flow is open, and at most one stream per flow is
\* open at any time.
C7_NoLeakAcrossRetries ==
    /\ scannerStatus = "error" => scannerLive = {}
    /\ importStatus = "error" => importLive = {}
    /\ Cardinality(scannerLive) <= 1
    /\ Cardinality(importLive) <= 1

\* C9: the OCR engine is created at most once per page, whatever the number
\* of recognize calls and Scanner sessions.
C9_EngineCreatedOnce ==
    enginesCreated <= 1

\* The step in which App receives one onScanComplete(scannedNumber,
\* selectedColour): one ticket more, with the Scanner's number and colour.
C17_Emits ==
    /\ tickets' = Append(tickets, [id     |-> nextId,
                                   number |-> Trim(scannedNumber),
                                   colour |-> scannerColour])
    /\ nextId' = nextId + 1

C17_EmitOnlyOnConfirm ==
    (tickets' # tickets \/ nextId' # nextId) =>
        /\ C17_Emits
        /\ scannerOpen
        /\ scannerStatus = "confirm"
        /\ scannedNumber # <<>>
        /\ scannerStatus' = "ready"
        /\ scannedNumber' = <<>>

\* Leaving confirm without emitting (retry) goes to ready with the number
\* cleared; confirm is entered only by a recognize call that settles.
C17_RetryAndCycle ==
    /\ (scannerOpen' /\ scannerStatus = "confirm" /\ scannerStatus' # "confirm") =>
          (scannerStatus' = "ready" /\ scannedNumber' = <<>>)
    /\ (scannerStatus # "confirm" /\ scannerStatus' = "confirm") =>
          Len(captures') < Len(captures)

C17_ConfirmPossible ==
    (scannerOpen /\ scannerStatus = "confirm" /\ scannedNumber # <<>> /\ nextId <= MaxNextId)
        => ENABLED ScannerHandleConfirm

\* C17 (as stated): a user confirm in state confirm emits onScanComplete and
\* returns to ready, whatever the number in the input.
C17_ConfirmAlwaysEmits ==
    (scannerOpen /\ scannerStatus = "confirm" /\ nextId <= MaxNextId)
        => ENABLED ScannerHandleConfirm

\* C17 (amended): a user confirm in state confirm with a non-empty number emits
\* exactly one onScanComplete call with the current number and the selected
\* colour and returns to ready with the number cleared (with an empty number
\* the confirm does nothing); a retry returns to ready and emits nothing;
\* onScanComplete is emitted from no other state and at most once per capture
\* cycle.
C17_ConfirmEmitsOnce ==
    /\ []C17_ConfirmPossible
    /\ [][C17_EmitOnlyOnConfirm]_vars
    /\ [][C17_RetryAndCycle]_vars

C17_Witness ==
    /\ scannerOpen
    /\ scannerStatus = "ready"
    /\ scannedNumber = <<>>
    /\ Len(tickets) = 1
    /\ tickets[1].number = <<"7">>
    /\ tickets[1].colour = "White"
    /\ nextId = 2

\* The status changes the flow is described by.
C23_Transitions ==
    {<<"idle", "camera-loading">>, <<"camera-loading", "ready">>,
     <<"camera-loading", "error">>, <<"error", "camera-loading">>,
     <<"ready", "capturing">>, <<"capturing", "processing">>,
     <<"processing", "confirm">>, <<"processing", "ready">>, <<"confirm", "ready">>}

\* One step of the model is one handler up to its next await; the only
\* handler that sets the status twice is captureAndRecognize (capturing, then
\* processing), so a step may also pass through capturing.
C23_Allowed(from, to) ==
    \/ <<from, to>> \in C23_Transitions
    \/ <<from, "capturing">> \in C23_Transitions /\ <<"capturing", to>> \in C23_Transitions

C23_StatusStep ==
    /\ (scannerOpen' /\ scannerStatus' # scannerStatus) =>
          C23_Allowed(scannerStatus, scannerStatus')
    /\ (~scannerOpen /\ ~scannerOpen') => scannerStatus' = scannerStatus

\* C23: every change of the status of a mounted Scanner is one of idle ->
\* camera-loading, camera-loading -> ready, camera-loading -> error, error ->
\* camera-loading, ready -> capturing, capturing -> processing, processing ->
\* confirm, processing -> ready, confirm -> ready; an acquire or a recognize
\* call that completes after the close changes no status.
C23_OnlyListedTransitions == [][C23_StatusStep]_vars

\* A second capture of the session has read a number, after two acquisitions.
C23_Witness ==
    /\ scannerOpen
    /\ scannerStatus = "confirm"
    /\ enginesCreated = 2
    /\ nextStream = 3

\* The message the user is to see for a failure of the given kind.
C24_Message(name) ==
    IF name = "NotAllowedError"
    THEN "Camera permission denied. Please allow camera access in your browser settings."
    ELSE IF name = "NotFoundError"
    THEN "No camera found on this device."
    ELSE "Camera error"

C24_ScannerStep ==
    /\ \A err \in CameraFailures :
          (scannerOpen /\ scannerStart # "none" /\ ScannerCatch(err.message)) =>
              /\ scannerStatus = "camera-loading"
              /\ scannerStatus' = "error"
              /\ scannerError' # "null"
              /\ scannerError' = C24_Message(err.name)
    /\ (scannerOpen /\ scannerOpen' /\ scannerStatus = "error" /\ scannerStatus' # "error") =>
          (scannerStatus' = "camera-loading" /\ scannerError' = "null")
    /\ (scannerStart # "getUserMedia" /\ scannerStart' = "getUserMedia") =>
          \/ ~scannerOpen /\ scannerOpen'
          \/ scannerOpen /\ scannerStatus = "error"

C24_ImportStep ==
    /\ \A err \in CameraFailures :
          (qrImportOpen /\ importStart # "none" /\ ImportCatch(err.message)) =>
              /\ importStatus = "camera-loading"
              /\ importStatus' = "error"
              /\ importError' # "null"
              /\ importError' = C24_Message(err.name)
    /\ (qrImportOpen /\ qrImportOpen' /\ importStatus = "error" /\ importStatus' # "error") =>
          (importStatus' = "camera-loading" /\ importError' = "null")
    /\ (importStart # "getUserMedia" /\ importStart' = "getUserMedia") =>
          \/ ~qrImportOpen /\ qrImportOpen'
          \/ qrImportOpen /\ importStatus \in {"error", "success"}

\* C24: in both flows a failed acquisition goes from camera-loading to error
\* with the permission-denied message for a NotAllowedError, the no-camera
\* message for a NotFoundError and the generic message otherwise; a retry from
\* error re-enters camera-loading with the message cleared; an acquire starts
\* only on a mount or on a user's retry (or scan-again).
C24_FailureClassified == [][C24_ScannerStep /\ C24_ImportStep]_vars

\* The parts of C24 that do not depend on the classification: the failure is
\* shown in status error with some message, and the retry and the acquire
\* conditions.
C24_FailureShown ==
    [][/\ \A err \in CameraFailures :
            (scannerOpen /\ scannerStart # "none" /\ ScannerCatch(err.message)) =>
                /\ scannerStatus = "camera-loading" /\ scannerStatus' = "error"
                /\ scannerError' = CameraErrorText(err.message)
       /\ \A err \in CameraFailures :
            (qrImportOpen /\ importStart # "none" /\ ImportCatch(err.message)) =>
                /\ importStatus = "camera-loading" /\ importStatus' = "error"
                /\ importError' = CameraErrorText(err.message)
       /\ (scannerOpen /\ scannerOpen' /\ scannerStatus = "error" /\ scannerStatus' # "error") =>
            (scannerStatus' = "camera-loading" /\ scannerError' = "null")
       /\ (qrImportOpen /\ qrImportOpen' /\ importStatus = "error" /\ importStatus' # "error") =>
            (importStatus' = "camera-loading" /\ importError' = "null")]_vars

C25_Hint == "Could not read ticket number. Try adjusting angle or lighting."

C25_Failed(result) == result.isNull \/ result.text = <<>>

C25_FailedStep ==
    \A k \in 1..Len(captures), result \in OCRResults :
        (scannerOpen /\ C25_Failed(result) /\ RecognizeSettles(k, result)) =>
            /\ scannerStatus = "processing" /\ scannerStatus' = "ready"
            /\ scannerOpen'
            /\ scannerStreamRef' = scannerStreamRef /\ scannerStreamRef' \in scannerLive'
            /\ tickets' = tickets /\ nextId' = nextId
            /\ scannedNumber' = scannedNumber
            /\ scannerColour' = scannerColour
            /\ scannerError' = C25_Hint

\* C25: when recognition returns null or an empty text the Scanner goes from
\* processing to ready and the session goes on: the stream stays acquired,
\* onScanComplete is not called, the pending number and the selected colour
\* are unchanged and the hint message is set.
C25_EmptyResultBackToReady == [][C25_FailedStep]_vars

\* A capture failed after an earlier one had been confirmed with the colour
\* the user picked.
C25_Witness ==
    /\ scannerOpen
    /\ scannerStatus = "ready"
    /\ scannerError = C25_Hint
    /\ scannerColour = "White"
    /\ Len(tickets) = 1
    /\ tickets[1].colour = "White"
    /\ scannerStreamRef \in scannerLive

\* C27: while QRImport is open with status scanning exactly one scanFrame poll
\* is scheduled: the chain of the mounted instance has a poll pending (every
\* poll that does not import schedules the next) and no other chain runs.
C27_OnePollWhileScanning ==
    (qrImportOpen /\ importStatus = "scanning") =>
        (animationRef = "pending" /\ orphanPolls = 0)

\* The half of C27 that holds: the mounted instance never has more than its
\* one chain, and a poll is pending only while it is scanning.
C27_NoSecondChainOfInstance ==
    (qrImportOpen /\ animationRef = "pending") => importStatus = "scanning"

\* C28: the message of a failed recognition is transient: the flow enters
\* ready with a message only from a capture that failed, so a confirm or a
\* retry after a capture that succeeded returns to ready with no message.
C28_HintIsTransient ==
    [][(scannerOpen /\ scannerOpen' /\ scannerStatus # "ready" /\ scannerStatus' = "ready") =>
          \/ scannerStatus = "processing" /\ scannerError' = C25_Hint
          \/ scannerError' = "null"]_vars

\* What holds instead: only the retry of the confirm panel clears the message.
C28_RetryClearsHint ==
    [][(scannerOpen /\ ScannerHandleRetry) => scannerError' = "null"]_vars

\* C29: a capture accepted in ready ends in confirm or ready, unless the flow
\* is closed: the status does not stay capturing or processing for ever.
C29_CaptureEnds ==
    (scannerOpen /\ scannerStatus \in {"capturing", "processing"})
        ~> (~scannerOpen \/ scannerStatus \in {"confirm", "ready"})

\* What holds instead: a capture that got its drawing context and reached
\* processing ends once recognize settles.
C29_ProcessingEnds ==
    (scannerOpen /\ scannerStatus = "processing")
        ~> (~scannerOpen \/ scannerStatus \in {"confirm", "ready"})

\* C18: Scanner and QRImport are never open together, so at most one of them
\* holds or is acquiring a camera stream.
C18_FlowsExclusive ==
    /\ ~(scannerOpen /\ qrImportOpen)
    /\ ~((scannerStreamRef # 0 \/ scannerStart = "getUserMedia")
            /\ (importStreamRef # 0 \/ importStart = "getUserMedia"))

-----------------------------------------------------------------------------
(* Claims about the ticket collection *)

\* C19: every ticket of the App's collection has a number that is not empty
\* (nor blank).
C19_NumbersNonEmpty ==
    \A i \in 1..Len(tickets) : Trim(tickets[i].number) # <<>>

C20_Ids(ts) == {ts[i].id : i \in 1..Len(ts)}

C20_DistinctBelowNext ==
    /\ \A i, j \in 1..Len(tickets) : i # j => tickets[i].id # tickets[j].id
    /\ \A i \in 1..Len(tickets) : tickets[i].id >= 1 /\ tickets[i].id < nextId

\* Ids are issued upwards: nextId never decreases and a ticket that enters
\* the collection gets an id that nextId had not passed yet.
C20_NeverReused ==
    /\ nextId' >= nextId
    /\ \A i \in 1..Len(tickets') :
          tickets'[i].id \notin C20_Ids(tickets) =>
              (tickets'[i].id >= nextId /\ tickets'[i].id < nextId')

\* C20: after any sequence of adds, scan confirmations, imports and removals
\* the tickets of the collection have pairwise distinct ids, nextId is greater
\* than every one of them, ids of removed tickets are not reused and the ids
\* decodeTickets minted do not enter the collection.
C20_IdsUnique == []C20_DistinctBelowNext /\ [][C20_NeverReused]_vars

C20_Witness ==
    /\ nextId = 3
    /\ tickets = <<[id |-> 2, number |-> <<>>, colour |-> "Red"]>>

C21_SameTicket(a, b) == a.number = b.number /\ a.colour = b.colour

\* C21: a confirmed QR import merges without duplicates: no ticket the import
\* appended has the number and colour of another ticket of the collection.
C21_ImportWithoutDuplicates ==
    [][(qrImportOpen /\ ~qrImportOpen' /\ Len(tickets') > Len(tickets)) =>
          \A i \in (Len(tickets) + 1)..Len(tickets'), j \in 1..Len(tickets') :
              i # j => ~C21_SameTicket(tickets'[i], tickets'[j])]_vars

-----------------------------------------------------------------------------
(* Claims about the export modal *)

\* Bytes of a string in UTF-8, the encoding of the QR symbol's byte mode: one
\* per ASCII character, two for U+00E9.
ByteLength(s) == Len(s) + Cardinality({i \in 1..Len(s) : s[i] = "U+00E9"})

\* C8: with a non-empty ticket list the QR symbol is rendered if and only if
\* the byte length of the encoded payload is at most MAX_SAFE_BYTES; above it
\* the warning is shown and QRCodeSVG is not rendered.
C8_RenderedIffWithinBytes ==
    (qrExportOpen /\ Len(tickets) > 0) =>
        /\ exportView = "qr" <=> ByteLength(encodeTickets(tickets)) <= MAX_SAFE_BYTES
        /\ exportView = "warning" <=> ByteLength(encodeTickets(tickets)) > MAX_SAFE_BYTES
        /\ exportView = "warning" => qrValue = <<>>

\* The same with the length String.length gives (UTF-16 code units), which is
\* what estimateQRSize measures: exact at the boundary.
ExportGuardOnLength ==
    (qrExportOpen /\ Len(tickets) > 0) =>
        /\ exportView = "qr" <=> Len(encodeTickets(tickets)) <= MAX_SAFE_BYTES
        /\ exportView = "warning" <=> Len(encodeTickets(tickets)) > MAX_SAFE_BYTES
        /\ exportView = "qr" => qrValue = encodeTickets(tickets)
        /\ exportView = "warning" => qrValue = <<>>

ExportBoundaryReached ==
    /\ exportView = "qr"
    /\ Len(qrValue) = MAX_SAFE_BYTES

ExportOverReached ==
    /\ exportView = "warning"
    /\ Len(encodeTickets(tickets)) = MAX_SAFE_BYTES + 1

====
